---- MODULE Spec2Model ----
(***************************************************************************)
(* A model of export_decomp.py: the script that opens a decompiler         *)
(* interface on the host's current program, walks the program's functions  *)
(* in forward order, decompiles each one and appends the C text of the     *)
(* completed ones to <output_dir>/<program name>_decomp.c.                 *)
(*                                                                         *)
(* The script is one sequential process; pc is its position, named after   *)
(* the source line about to execute.  The host's objects (the program, the *)
(* decompiler, the file system) are the environment: every call into them  *)
(* returns one of the outcomes the host can produce, or raises.            *)
(***************************************************************************)
EXTENDS Integers, Sequences, FiniteSets, TLC

\* ---------------------------------------------------------------- bounds
MaxFuncs == 2        \* a program has 0..MaxFuncs functions
MaxRuns == 2         \* the script is run at most MaxRuns times in succession

\* ------------------------------------------------- the host's input data
Names == {"libRosettaRuntime", "rosetta"}      \* program.getName()
Langs == {"AARCH64:LE:64:v8A"}                 \* program.getLanguageID()
PriorContents == {<<>>, <<"stale">>}           \* what the file held before

output_dir == "/Users/inoki/Builds/srcs/Rosetta2"
NL == "\n"

VARIABLES
    program,          \* currentProgram: [name, lang, nfuncs]
    pc,               \* the line about to execute, or "done" / "failed"
    run,              \* which run of the script this is (1..MaxRuns)
    opened,           \* what openProgram returned: "none", "true", "false"
    disposed,         \* number of dispose() calls of this run
    f,                \* the file object: "none", "open", "closed"
    opens,            \* number of successful open() calls of this run
    closes,           \* number of closes of the file object of this run
    disk,             \* content of the output file, a sequence of tokens
    idx,              \* how many functions the iterator has handed out
    func,             \* loop variable func (0 before the loop)
    result,           \* result.decompileCompleted(): "none", "true", "false"
    decompiled_code,  \* local decompiled_code ("" when unset)
    requests,         \* the decompileFunction requests of this run, in order
    outstanding,      \* functions whose decompileFunction call has not returned
    handled,          \* functions whose iteration ended (written or skipped)
    res,              \* per function: "none", "completed", "incomplete", "raised"
    out,              \* what this run printed
    failure,          \* "none", or the call that raised
    prev              \* the previous run: [done, res, disk]

vars == <<program, pc, run, opened, disposed, f, opens, closes, disk, idx,
          func, result, decompiled_code, requests, outstanding, handled,
          res, out, failure, prev>>

\* ---------------------------------------------------------------- helpers
IsPrefix(s, t) == Len(s) <= Len(t) /\ SubSeq(t, 1, Len(s)) = s

ProperPrefixes(chunk) == {SubSeq(chunk, 1, k) : k \in 0..(Len(chunk) - 1)}

Funcs == 1..program.nfuncs

\* program.getFunctionManager().getFunctions(True): forward order
functions == [i \in 1..program.nfuncs |-> i]

\* os.path.join(output_dir, f"{program_name}_decomp.c")
output_file == output_dir \o "/" \o program.name \o "_decomp.c"

\* result.getDecompiledFunction().getC() of function fn
GetC(fn) == "c_text_" \o ToString(fn)

HeaderLine1 == <<"// Decompiled code for " \o program.name, NL>>
HeaderLine2 == <<"// Language: " \o program.lang, NL, NL>>
Separator == <<NL, NL>>

NoRes == [i \in Funcs |-> "none"]

\* The state of the script's own variables when a run starts.
FreshRun ==
    /\ pc = "L14"
    /\ opened = "none"
    /\ disposed = 0
    /\ f = "none"
    /\ opens = 0
    /\ closes = 0
    /\ idx = 0
    /\ func = 0
    /\ result = "none"
    /\ decompiled_code = ""
    /\ requests = <<>>
    /\ outstanding = {}
    /\ handled = {}
    /\ res = NoRes
    /\ out = <<>>
    /\ failure = "none"

Init ==
    /\ program \in [name : Names, lang : Langs, nfuncs : 0..MaxFuncs]
    /\ run = 1
    /\ disk \in PriorContents
    /\ prev = [done |-> FALSE, res |-> NoRes, disk |-> <<>>]
    /\ FreshRun

\* Variant of RaiseInBlock: the file opened without a with statement, so an
\* exception leaves it open.
RaiseInBlock_NoClose(what) ==
    /\ pc' = "failed"
    /\ failure' = what
    /\ f' = f
    /\ closes' = closes

\* An exception leaves the with block: the file object is closed on the way.
RaiseInBlock(what) ==
    /\ pc' = "failed"
    /\ failure' = what
    /\ f' = "closed"
    /\ closes' = closes + 1

\* ---------------------------------------------------------------- actions
\* Variant of OpenProgram: the openProgram call left out.
OpenProgram_Skipped ==
    /\ pc = "L14"
    /\ opened' = "none"
    /\ pc' = "L18"
    /\ UNCHANGED <<program, run, disposed, f, opens, closes, disk, idx, func,
                   result, decompiled_code, requests, outstanding, handled,
                   res, out, failure, prev>>

\* line 14: openProgram returns a boolean the script does not look at.
OpenProgram ==
    /\ pc = "L14"
    /\ \E ok \in {"true", "false"} : opened' = ok
    /\ pc' = "L18"
    /\ UNCHANGED <<program, run, disposed, f, opens, closes, disk, idx, func,
                   result, decompiled_code, requests, outstanding, handled,
                   res, out, failure, prev>>

\* line 14: openProgram raises.
OpenProgramRaises ==
    /\ pc = "L14"
    /\ pc' = "failed"
    /\ failure' = "openProgram"
    /\ UNCHANGED <<program, run, opened, disposed, f, opens, closes, disk,
                   idx, func, result, decompiled_code, requests, outstanding,
                   handled, res, out, prev>>

\* Variant of OpenFile: the file opened in append mode, open(output_file, "a").
OpenFile_Append ==
    /\ pc = "L18"
    /\ f' = "open"
    /\ opens' = opens + 1
    /\ disk' = disk
    /\ pc' = "L19"
    /\ UNCHANGED <<program, run, opened, disposed, closes, idx, func, result,
                   decompiled_code, requests, outstanding, handled, res, out,
                   failure, prev>>

\* line 18: open(output_file, "w") truncates the file.
OpenFile ==
    /\ pc = "L18"
    /\ f' = "open"
    /\ opens' = opens + 1
    /\ disk' = <<>>
    /\ pc' = "L19"
    /\ UNCHANGED <<program, run, opened, disposed, closes, idx, func, result,
                   decompiled_code, requests, outstanding, handled, res, out,
                   failure, prev>>

\* line 18: open raises (the directory is missing, no permission, ...).
OpenFileRaises ==
    /\ pc = "L18"
    /\ pc' = "failed"
    /\ failure' = "open"
    /\ UNCHANGED <<program, run, opened, disposed, f, opens, closes, disk,
                   idx, func, result, decompiled_code, requests, outstanding,
                   handled, res, out, prev>>

\* Variant of Chunk: line 28 writes a single newline.
Chunk_ShortSeparator ==
    CASE pc = "L19" -> HeaderLine1
      [] pc = "L20" -> HeaderLine2
      [] pc = "L27" -> <<decompiled_code>>
      [] pc = "L28" -> <<NL>>
      [] OTHER -> <<>>

\* The chunk the write at the current line appends.
Chunk ==
    CASE pc = "L19" -> HeaderLine1
      [] pc = "L20" -> HeaderLine2
      [] pc = "L27" -> <<decompiled_code>>
      [] pc = "L28" -> Separator
      [] OTHER -> <<>>

AfterWrite ==
    CASE pc = "L19" -> "L20"
      [] pc = "L20" -> "L22"
      [] pc = "L27" -> "L28"
      [] OTHER -> "L23"

\* lines 19, 20: the two header writes.
WriteHeader ==
    /\ pc \in {"L19", "L20"}
    /\ f = "open"
    /\ disk' = disk \o Chunk
    /\ pc' = AfterWrite
    /\ UNCHANGED <<program, run, opened, disposed, f, opens, closes, idx,
                   func, result, decompiled_code, requests, outstanding,
                   handled, res, out, failure, prev>>

\* line 22: the function iterator is obtained.
GetFunctions ==
    /\ pc = "L22"
    /\ idx' = 0
    /\ pc' = "L23"
    /\ UNCHANGED <<program, run, opened, disposed, f, opens, closes, disk,
                   func, result, decompiled_code, requests, outstanding,
                   handled, res, out, failure, prev>>

\* Variant of ForNext: the functions walked backwards, getFunctions(False).
ForNext_Reverse ==
    /\ pc = "L23"
    /\ idx < Len(functions)
    /\ func' = functions[Len(functions) - idx]
    /\ idx' = idx + 1
    /\ pc' = "L24"
    /\ UNCHANGED <<program, run, opened, disposed, f, opens, closes, disk,
                   result, decompiled_code, requests, outstanding, handled,
                   res, out, failure, prev>>

\* line 23: the iterator hands out the next function.
ForNext ==
    /\ pc = "L23"
    /\ idx < Len(functions)
    /\ func' = functions[idx + 1]
    /\ idx' = idx + 1
    /\ pc' = "L24"
    /\ UNCHANGED <<program, run, opened, disposed, f, opens, closes, disk,
                   result, decompiled_code, requests, outstanding, handled,
                   res, out, failure, prev>>

\* line 23 -> 30: the iterator is exhausted, the with block closes the file.
ExitWith ==
    /\ pc = "L23"
    /\ idx >= Len(functions)
    /\ f' = "closed"
    /\ closes' = closes + 1
    /\ pc' = "L30"
    /\ UNCHANGED <<program, run, opened, disposed, opens, disk, idx, func,
                   result, decompiled_code, requests, outstanding, handled,
                   res, out, failure, prev>>

\* line 24: decompileFunction(func, 0, monitor) is called.
DecompileCall ==
    /\ pc = "L24"
    /\ requests' = Append(requests, func)
    /\ outstanding' = outstanding \cup {func}
    /\ pc' = "L24r"
    /\ UNCHANGED <<program, run, opened, disposed, f, opens, closes, disk,
                   idx, func, result, decompiled_code, handled, res, out,
                   failure, prev>>

\* line 24: the call returns a result, completed or not.
DecompileReturn ==
    /\ pc = "L24r"
    /\ \E completed \in {"true", "false"} :
          /\ result' = completed
          /\ res' = [res EXCEPT ![func] =
                        IF completed = "true" THEN "completed" ELSE "incomplete"]
    /\ outstanding' = outstanding \ {func}
    /\ pc' = "L25"
    /\ UNCHANGED <<program, run, opened, disposed, f, opens, closes, disk,
                   idx, func, decompiled_code, requests, handled, out,
                   failure, prev>>

\* Variant of DecompileRaises: the loop wrapped in try/finally with dispose().
DecompileRaises_Disposes ==
    /\ pc = "L24r"
    /\ res' = [res EXCEPT ![func] = "raised"]
    /\ outstanding' = outstanding \ {func}
    /\ disposed' = disposed + 1
    /\ RaiseInBlock("decompileFunction")
    /\ UNCHANGED <<program, run, opened, opens, disk, idx, func, result,
                   decompiled_code, requests, handled, out, prev>>

\* line 24: the call raises.
DecompileRaises ==
    /\ pc = "L24r"
    /\ res' = [res EXCEPT ![func] = "raised"]
    /\ outstanding' = outstanding \ {func}
    /\ RaiseInBlock("decompileFunction")
    /\ UNCHANGED <<program, run, opened, disposed, opens, disk, idx, func,
                   result, decompiled_code, requests, handled, out, prev>>

\* Variant of CheckCompleted: a result that did not complete ends the loop
\* (else: break).
CheckCompleted_Break ==
    /\ pc = "L25"
    /\ IF result = "true"
          THEN /\ pc' = "L26"
               /\ handled' = handled
               /\ UNCHANGED <<f, closes>>
          ELSE /\ pc' = "L30"
               /\ handled' = handled \cup {func}
               /\ f' = "closed"
               /\ closes' = closes + 1
    /\ UNCHANGED <<program, run, opened, disposed, opens, disk, idx, func,
                   result, decompiled_code, requests, outstanding, res, out,
                   failure, prev>>

\* line 25: if result.decompileCompleted(); otherwise on to the next function.
CheckCompleted ==
    /\ pc = "L25"
    /\ IF result = "true"
          THEN /\ pc' = "L26"
               /\ handled' = handled
          ELSE /\ pc' = "L23"
               /\ handled' = handled \cup {func}
    /\ UNCHANGED <<program, run, opened, disposed, f, opens, closes, disk,
                   idx, func, result, decompiled_code, requests, outstanding,
                   res, out, failure, prev>>

\* line 26: decompiled_code = result.getDecompiledFunction().getC()
GetDecompiledCode ==
    /\ pc = "L26"
    /\ decompiled_code' = GetC(func)
    /\ pc' = "L27"
    /\ UNCHANGED <<program, run, opened, disposed, f, opens, closes, disk,
                   idx, func, result, requests, outstanding, handled, res,
                   out, failure, prev>>

\* Variant of WriteCode: the text written from the start of the file.
WriteCode_Overwrite ==
    /\ pc = "L27"
    /\ f = "open"
    /\ disk' = Chunk
    /\ pc' = AfterWrite
    /\ UNCHANGED <<program, run, opened, disposed, f, opens, closes, idx,
                   func, result, decompiled_code, requests, outstanding,
                   handled, res, out, failure, prev>>

\* line 27: f.write(decompiled_code)
WriteCode ==
    /\ pc = "L27"
    /\ f = "open"
    /\ disk' = disk \o Chunk
    /\ pc' = AfterWrite
    /\ UNCHANGED <<program, run, opened, disposed, f, opens, closes, idx,
                   func, result, decompiled_code, requests, outstanding,
                   handled, res, out, failure, prev>>

\* Variant of WriteSeparator: the print of line 30 indented into the loop.
WriteSeparator_Prints ==
    /\ pc = "L28"
    /\ f = "open"
    /\ disk' = disk \o Chunk
    /\ handled' = handled \cup {func}
    /\ out' = Append(out, "Decompiled code written to " \o output_file)
    /\ pc' = AfterWrite
    /\ UNCHANGED <<program, run, opened, disposed, f, opens, closes, idx,
                   func, result, decompiled_code, requests, outstanding, res,
                   failure, prev>>

\* line 28: f.write("\n\n"), the end of the iteration.
WriteSeparator ==
    /\ pc = "L28"
    /\ f = "open"
    /\ disk' = disk \o Chunk
    /\ handled' = handled \cup {func}
    /\ pc' = AfterWrite
    /\ UNCHANGED <<program, run, opened, disposed, f, opens, closes, idx,
                   func, result, decompiled_code, requests, outstanding, res,
                   out, failure, prev>>

\* lines 19, 20, 27, 28: a write raises, having appended less than its chunk.
WriteRaises ==
    /\ pc \in {"L19", "L20", "L27", "L28"}
    /\ f = "open"
    /\ \E part \in ProperPrefixes(Chunk) : disk' = disk \o part
    /\ RaiseInBlock("write")
    /\ UNCHANGED <<program, run, opened, disposed, opens, idx, func, result,
                   decompiled_code, requests, outstanding, handled, res, out,
                   prev>>

\* line 30: print(f"Decompiled code written to {output_file}")
PrintWritten ==
    /\ pc = "L30"
    /\ out' = Append(out, "Decompiled code written to " \o output_file)
    /\ pc' = "L31"
    /\ UNCHANGED <<program, run, opened, disposed, f, opens, closes, disk,
                   idx, func, result, decompiled_code, requests, outstanding,
                   handled, res, failure, prev>>

\* line 31: decomp_interface.dispose()
Dispose ==
    /\ pc = "L31"
    /\ disposed' = disposed + 1
    /\ pc' = "done"
    /\ UNCHANGED <<program, run, opened, f, opens, closes, disk, idx, func,
                   result, decompiled_code, requests, outstanding, handled,
                   res, out, failure, prev>>

\* The host runs the script again on the same program; the file stays.
RunAgain ==
    /\ pc \in {"done", "failed"}
    /\ run < MaxRuns
    /\ run' = run + 1
    /\ prev' = [done |-> (pc = "done"), res |-> res, disk |-> disk]
    /\ pc' = "L14"
    /\ opened' = "none"
    /\ disposed' = 0
    /\ f' = "none"
    /\ opens' = 0
    /\ closes' = 0
    /\ idx' = 0
    /\ func' = 0
    /\ result' = "none"
    /\ decompiled_code' = ""
    /\ requests' = <<>>
    /\ outstanding' = {}
    /\ handled' = {}
    /\ res' = NoRes
    /\ out' = <<>>
    /\ failure' = "none"
    /\ UNCHANGED <<program, disk>>

Next ==
    \/ OpenProgram
    \/ OpenProgramRaises
    \/ OpenFile
    \/ OpenFileRaises
    \/ WriteHeader
    \/ GetFunctions
    \/ ForNext
    \/ ExitWith
    \/ DecompileCall
    \/ DecompileReturn
    \/ DecompileRaises
    \/ CheckCompleted
    \/ GetDecompiledCode
    \/ WriteCode
    \/ WriteSeparator
    \/ WriteRaises
    \/ PrintWritten
    \/ Dispose
    \/ RunAgain

Spec == Init /\ [][Next]_vars

\* ------------------------------------------------------------------------
\* What the claims speak about.
\* ------------------------------------------------------------------------
Range(s) == {s[i] : i \in 1..Len(s)}

\* The header as the interface describes it: the program-name line, the
\* language line and one blank line.
ExpectedHeader ==
    <<"// Decompiled code for " \o program.name, "\n",
      "// Language: " \o program.lang, "\n", "\n">>

\* The block of function k: its C text and the blank line that follows it.
ExpectedBlock(k) == <<"c_text_" \o ToString(k), "\n", "\n">>

\* The blocks of the completed functions among the first k, each followed by
\* its blank line.
RECURSIVE ExpectedBlocks(_)
ExpectedBlocks(k) ==
    IF k = 0 THEN <<>>
    ELSE ExpectedBlocks(k - 1) \o
         (IF res[k] = "completed" THEN ExpectedBlock(k) ELSE <<>>)

\* The C texts of the completed functions among the first k with a blank
\* line between consecutive blocks only.
RECURSIVE SeparatedBlocks(_)
SeparatedBlocks(k) ==
    IF k = 0 THEN <<>>
    ELSE IF res[k] # "completed" THEN SeparatedBlocks(k - 1)
    ELSE IF SeparatedBlocks(k - 1) = <<>> THEN <<"c_text_" \o ToString(k)>>
    ELSE SeparatedBlocks(k - 1) \o <<"\n", "\n", "c_text_" \o ToString(k)>>

ExpectedMessage ==
    "Decompiled code written to /Users/inoki/Builds/srcs/Rosetta2/"
        \o program.name \o "_decomp.c"

AfterBlock == pc \in {"L30", "L31", "done"}
InLoop == pc \in {"L23", "L24", "L24r", "L25", "L26", "L27", "L28"}
SameRun == run' = run

\* ------------------------------------------------------------------ C1
\* C1 as stated: after a run without an uncaught failure the file is the
\* header followed by the C texts of the completed functions, in iteration
\* order, with blank lines between the blocks, and nothing else.
C1_SeparatedOnly ==
    pc = "done" => disk = ExpectedHeader \o SeparatedBlocks(program.nfuncs)

\* C1 as amended: after a run without an uncaught failure the file is exactly
\* the header (name line, language line, one blank line; written once, first)
\* followed, for each completed function in iteration order, by its C text
\* and a blank line: every block, the last one too, is followed by "\n\n".
C1_FileContent ==
    pc = "done" => disk = ExpectedHeader \o ExpectedBlocks(program.nfuncs)

C1_Witness ==
    /\ pc = "done"
    /\ program.nfuncs = 2
    /\ res[1] = "incomplete"
    /\ res[2] = "completed"
    /\ disk = ExpectedHeader \o ExpectedBlock(2)

\* ------------------------------------------------------------------ C2
\* C2: an iteration whose result reports decompileCompleted() false leaves
\* the file and the printed output unchanged and goes on to the next
\* function with the file still open and no failure; on a run that ends
\* normally every function was decompiled, the text of every completed one
\* is in the file and the text of no skipped one is.
C2_SkipStep ==
    (pc = "L25" /\ result = "false") =>
        /\ disk' = disk
        /\ out' = out
        /\ failure' = failure
        /\ f' = f
        /\ idx' = idx
        /\ pc' = "L23"

C2_AllHandled ==
    pc = "done" =>
        \A k \in Funcs :
            /\ res[k] \in {"completed", "incomplete"}
            /\ res[k] = "completed" <=> ("c_text_" \o ToString(k)) \in Range(disk)

\* C2: the final state and the skip step together.
C2_SilentSkip == [](C2_AllHandled) /\ [][C2_SkipStep]_vars

C2_Witness ==
    /\ pc = "L23"
    /\ func >= 1
    /\ result = "false"
    /\ func \in handled
    /\ idx < program.nfuncs
    /\ out = <<>>

\* ------------------------------------------------------------------ C3
\* C3: the file is opened at most once in a run and exactly once in every
\* run that reaches the write block; once opened it is closed exactly once,
\* on the normal path and on the path of an exception raised inside the
\* block; the content changes only while the file object is open (or by the
\* truncation of the open itself).
C3_OpenClose ==
    /\ opens <= 1
    /\ closes <= opens
    /\ f = "none" <=> opens = 0
    /\ f = "open" <=> (opens = 1 /\ closes = 0)
    /\ (InLoop \/ pc \in {"L19", "L20", "L22"}) => f = "open"
    /\ AfterBlock => (opens = 1 /\ closes = 1 /\ f = "closed")
    /\ pc = "failed" => (f # "open" /\ closes = opens)

C3_WriteStep ==
    (disk' # disk) => (f = "open" \/ (f = "none" /\ f' = "open" /\ disk' = <<>>))

\* C3: the open/close counts and the write step together.
C3_OpenedOnceClosedAlways == [](C3_OpenClose) /\ [][C3_WriteStep]_vars

C3_Witness ==
    /\ pc = "failed"
    /\ failure = "decompileFunction"
    /\ opens = 1
    /\ closes = 1
    /\ f = "closed"

\* ------------------------------------------------------------------ C4
\* C4: a failure to open the program in the decompiler, a failure to open
\* the output file and a failure of a write each end the script at that
\* point: nothing more is decompiled, printed or disposed.
C4_FailureTerminates ==
    /\ opened = "false" => pc = "failed"
    /\ failure # "none" => (pc = "failed" /\ out = <<>> /\ disposed = 0)
    /\ failure \in {"openProgram", "open"} => (requests = <<>> /\ f = "none")

\* ------------------------------------------------------------------ C5
\* C5: the requests of a run are the functions in forward iteration order,
\* each at most once, and all of them once the loop has ended; at most one
\* request is outstanding, and while one is, every earlier function has been
\* fully handled (its block written, or skipped).
C5_SequentialRequests ==
    /\ IsPrefix(requests, [i \in 1..program.nfuncs |-> i])
    /\ AfterBlock => requests = [i \in 1..program.nfuncs |-> i]
    /\ Cardinality(outstanding) <= 1
    /\ outstanding # {} => handled = Range(requests) \ outstanding
    /\ handled \subseteq Range(requests)
    /\ Len(requests) - Cardinality(handled) <= 1

C5_Witness ==
    /\ pc = "L24r"
    /\ func = 2
    /\ res[1] = "incomplete"
    /\ requests = <<1, 2>>
    /\ outstanding = {2}

\* ------------------------------------------------------------------ C6
\* C6: openProgram has been called before the file is opened and before any
\* request; while a request is outstanding openProgram has been called,
\* dispose has not, and the file is open; dispose is called at most once,
\* exactly once on a normal run, after the last request and after the file
\* is closed, and no request follows it.  (The session counts as open from
\* the openProgram call to the dispose call; what openProgram returned is
\* the matter of C4.)
C6_Order ==
    /\ f # "none" => opened # "none"
    /\ requests # <<>> => (opened # "none" /\ opens = 1)
    /\ outstanding # {} => (opened # "none" /\ disposed = 0 /\ f = "open")
    /\ disposed <= 1
    /\ pc = "done" => disposed = 1
    /\ disposed = 1 =>
          (f = "closed" /\ outstanding = {} /\ Len(requests) = program.nfuncs)

C6_NoRequestAfterDispose == (disposed >= 1 /\ SameRun) => requests' = requests

C7_WholeBlocksOnly ==
    (pc = "failed" /\ func >= 1) =>
        disk = ExpectedHeader \o ExpectedBlocks(func - 1)

\* C7 as amended: once the header is written the content is the header, the
\* whole blocks of the completed functions among those already handled, and
\* a proper prefix (possibly empty) of the block of the function being
\* written; the content only grows within a run after the open; a run cut
\* short at function k leaves the header, the blocks of the completed
\* functions among the first k-1 and, when a write of function k raised, a
\* proper prefix of the block of k.
HeaderWritten == InLoop \/ AfterBlock \/ pc = "L22" \/ (pc = "failed" /\ func >= 1)

C7_Partial ==
    IF func >= 1 /\ func \notin handled /\ res[func] = "completed"
       THEN ProperPrefixes(ExpectedBlock(func))
       ELSE {<<>>}

C7_Content ==
    HeaderWritten =>
        /\ \A k \in handled : \A j \in 1..k : j \in handled
        /\ \E part \in C7_Partial :
              disk = ExpectedHeader \o ExpectedBlocks(Cardinality(handled)) \o part
        /\ (pc = "failed") =>
              /\ Cardinality(handled) = func - 1
              /\ failure # "write" =>
                    disk = ExpectedHeader \o ExpectedBlocks(func - 1)

C7_Grows == (SameRun /\ f = "open") => IsPrefix(disk, disk')

\* C7 as amended: the content at every point and its growth, together.
C7_Incremental == [](C7_Content) /\ [][C7_Grows]_vars

C7_Witness ==
    /\ pc = "failed"
    /\ failure = "write"
    /\ func = 2
    /\ res[1] = "completed"
    /\ disk = ExpectedHeader \o ExpectedBlock(1) \o <<"c_text_2">>

\* ------------------------------------------------------------------ C8
\* C8: the message is printed at most once per run, only when every function
\* has been handled and the file is closed, and on every run that ends
\* without an uncaught failure, a run whose file holds only the header too.
C8_Message ==
    /\ Len(out) <= 1
    /\ out # <<>> =>
          /\ out[1] = ExpectedMessage
          /\ handled = Funcs
          /\ f = "closed"
          /\ failure = "none"
    /\ pc = "done" => Len(out) = 1

C8_Witness ==
    /\ pc = "done"
    /\ program.nfuncs = 2
    /\ \A k \in Funcs : res[k] = "incomplete"
    /\ disk = ExpectedHeader
    /\ out = <<ExpectedMessage>>

\* ------------------------------------------------------------------ C9
\* C9: dispose is called only on a run without an uncaught failure; a run
\* that fails at a step after openProgram ends with openProgram called and
\* dispose never called, and a failed run takes no further step.
C9_State ==
    /\ disposed > 0 => failure = "none"
    /\ failure # "none" => pc = "failed"
    /\ (pc = "failed" /\ failure # "openProgram") =>
          (opened # "none" /\ disposed = 0)

C9_FailedIsFinal == (pc = "failed") => ~SameRun

C10_Truncates ==
    /\ pc = "L19" => disk = <<>>
    /\ (pc = "done" /\ prev.done /\ prev.res = res) => disk = prev.disk

C10_Witness ==
    /\ run = 2
    /\ pc = "done"
    /\ prev.done
    /\ prev.res = res
    /\ program.nfuncs = 2
    /\ res[1] = "completed"
    /\ prev.disk # <<>>

====
